---- MODULE Spec2Model ----
(***************************************************************************)
(* Model of nutrition_planner.py: the Person calorie/protein arithmetic,   *)
(* maintain_cals, and FoodDatabase (store_food_df, random_meal).           *)
(*                                                                         *)
(* Python's float is IEEE-754 binary64.  The arithmetic of the program is  *)
(* modelled bit-exactly: a float is a sign, a 53-bit significand and an    *)
(* exponent, every operation rounds to nearest, ties to even, with         *)
(* subnormals, overflow to infinity and NaN.  Significands do not fit      *)
(* TLC's 32-bit integers, so they are little-endian sequences of 14-bit    *)
(* limbs.  An int argument below 2^53 behaves as the float of the same     *)
(* value in every expression of the program, so inputs are floats.         *)
(***************************************************************************)
EXTENDS Integers, Sequences, FiniteSets, TLC

VARIABLES person, pc, call, result

vars == <<person, pc, call, result>>

(***************************************************************************)
(* Natural numbers of any size: little-endian limbs, no high zero limb.    *)
(***************************************************************************)
LimbBits == 14

Base == 2^LimbBits

Limb(a, i) == IF i >= 1 /\ i <= Len(a) THEN a[i] ELSE 0

RECURSIVE Trim(_)
Trim(a) == IF a = <<>> THEN <<>>
           ELSE IF a[Len(a)] = 0 THEN Trim(SubSeq(a, 1, Len(a) - 1)) ELSE a

RECURSIVE SmallBits(_)
SmallBits(n) == IF n = 0 THEN 0 ELSE 1 + SmallBits(n \div 2)

BitLen(a) == IF a = <<>> THEN 0
             ELSE LimbBits * (Len(a) - 1) + SmallBits(a[Len(a)])

RECURSIVE CmpFrom(_, _, _)
CmpFrom(a, b, i) ==
    IF i = 0 THEN 0
    ELSE IF Limb(a, i) > Limb(b, i) THEN 1
    ELSE IF Limb(a, i) < Limb(b, i) THEN -1
    ELSE CmpFrom(a, b, i - 1)

\* -1, 0, 1 as a < b, a = b, a > b
Cmp(a, b) == CmpFrom(a, b, IF Len(a) > Len(b) THEN Len(a) ELSE Len(b))

RECURSIVE AddFrom(_, _, _, _, _)
AddFrom(a, b, i, n, c) ==
    IF i > n THEN (IF c = 0 THEN <<>> ELSE <<c>>)
    ELSE LET s == Limb(a, i) + Limb(b, i) + c
         IN <<s % Base>> \o AddFrom(a, b, i + 1, n, s \div Base)

Add(a, b) == AddFrom(a, b, 1, IF Len(a) > Len(b) THEN Len(a) ELSE Len(b), 0)

RECURSIVE SubFrom(_, _, _, _)
SubFrom(a, b, i, c) ==
    IF i > Len(a) THEN <<>>
    ELSE LET s == Limb(a, i) - Limb(b, i) - c
         IN IF s < 0 THEN <<s + Base>> \o SubFrom(a, b, i + 1, 1)
            ELSE <<s>> \o SubFrom(a, b, i + 1, 0)

\* a - b for a >= b
Sub(a, b) == Trim(SubFrom(a, b, 1, 0))

RECURSIVE ColSum(_, _, _, _)
ColSum(a, b, k, i) ==
    IF i > Len(a) \/ i > k THEN 0
    ELSE a[i] * Limb(b, k + 1 - i) + ColSum(a, b, k, i + 1)

RECURSIVE MulFrom(_, _, _, _)
MulFrom(a, b, k, c) ==
    IF k > Len(a) + Len(b) THEN <<>>
    ELSE LET s == ColSum(a, b, k, 1) + c
         IN <<s % Base>> \o MulFrom(a, b, k + 1, s \div Base)

\* both factors of at most 4 limbs, so a column sum stays below 2^31
Mul(a, b) == IF a = <<>> \/ b = <<>> THEN <<>> ELSE Trim(MulFrom(a, b, 1, 0))

Shl(a, k) ==
    IF a = <<>> THEN <<>>
    ELSE LET q == k \div LimbBits
             r == k % LimbBits
             p == 2^r
         IN Trim([i \in 1..(q + Len(a) + 1) |->
                     IF i <= q THEN 0
                     ELSE ((Limb(a, i - q) * p) % Base)
                          + ((Limb(a, i - q - 1) * p) \div Base)])

Shr(a, k) ==
    LET q == k \div LimbBits
        r == k % LimbBits
        p == 2^r
        n == Len(a) - q
    IN IF n <= 0 THEN <<>>
       ELSE Trim([i \in 1..n |->
                     (Limb(a, i + q) \div p)
                     + (Limb(a, i + q + 1) % p) * 2^(LimbBits - r)])

\* a mod 2^k /= 0
LowNonzero(a, k) ==
    LET q == k \div LimbBits
        r == k % LimbBits
    IN \/ \E i \in 1..q : Limb(a, i) # 0
       \/ Limb(a, q + 1) % (2^r) # 0

IsOdd(a) == Limb(a, 1) % 2 = 1

RECURSIVE ToBig(_)
ToBig(n) == IF n = 0 THEN <<>> ELSE <<n % Base>> \o ToBig(n \div Base)

(***************************************************************************)
(* binary64.  A finite value is s * m * 2^e with m < 2^53 and              *)
(* EMin <= e <= EMax, m >= 2^52 unless e = EMin (subnormal; zero is m = 0, *)
(* kept unsigned: the program never divides by zero or prints a zero).     *)
(***************************************************************************)
Precision == 53

\* limbs that hold a significand
DivLimbs == 4

EMin == -1074

EMax == 971

Fin(s, m, e) == [k |-> "fin", s |-> s, m |-> m, e |-> e]

Zero == Fin(1, <<>>, EMin)

Inf(s) == [k |-> "inf", s |-> s, m |-> <<>>, e |-> 0]

NaN == [k |-> "nan", s |-> 1, m |-> <<>>, e |-> 0]

IsZero(x) == x.k = "fin" /\ x.m = <<>>

\* s * m * 2^e (m of any size) rounded to nearest, ties to even; sticky tells
\* that the exact value lies strictly above m * 2^e in magnitude
RoundF(s, m, e, sticky) ==
    IF m = <<>> THEN Zero
    ELSE LET len == BitLen(m)
             k == IF e + (len - Precision) < EMin THEN EMin - e ELSE len - Precision
         IN IF k <= 0
            THEN IF e + k > EMax THEN Inf(s) ELSE Fin(s, Shl(m, -k), e + k)
            ELSE LET q1 == Shr(m, k - 1)
                     q == Shr(q1, 1)
                     st == sticky \/ LowNonzero(m, k - 1)
                     up == IsOdd(q1) /\ (st \/ IsOdd(q))
                     q2 == IF up THEN Add(q, <<1>>) ELSE q
                     carry == BitLen(q2) > Precision
                     m2 == IF carry THEN Shr(q2, 1) ELSE q2
                     e2 == IF carry THEN e + k + 1 ELSE e + k
                 IN IF m2 = <<>> THEN Zero
                    ELSE IF e2 > EMax THEN Inf(s)
                    ELSE Fin(s, m2, e2)

FromInt(n) == RoundF(IF n < 0 THEN -1 ELSE 1, ToBig(IF n < 0 THEN -n ELSE n), 0, FALSE)

\* x * 2^n for a finite x (math.ldexp): builds inputs, the program never calls it
Scale(x, n) == RoundF(x.s, x.m, x.e + n, FALSE)

FNeg(x) == IF x.k = "nan" \/ IsZero(x) THEN x ELSE [x EXCEPT !.s = -x.s]

FAbs(x) == [x EXCEPT !.s = 1]

FMul(x, y) ==
    IF x.k = "nan" \/ y.k = "nan" THEN NaN
    ELSE IF x.k = "inf" \/ y.k = "inf"
         THEN IF IsZero(x) \/ IsZero(y) THEN NaN ELSE Inf(x.s * y.s)
    ELSE RoundF(x.s * y.s, Mul(x.m, y.m), x.e + y.e, FALSE)

\* the farther operand, more than MaxAlign binary places below the nearer one,
\* only decides the direction of rounding: a unit in the last place stands for it
MaxAlign == 60

FAdd(x, y) ==
    IF x.k = "nan" \/ y.k = "nan" THEN NaN
    ELSE IF x.k = "inf" THEN (IF y.k = "inf" /\ y.s # x.s THEN NaN ELSE x)
    ELSE IF y.k = "inf" THEN y
    ELSE IF IsZero(x) THEN y
    ELSE IF IsZero(y) THEN x
    ELSE LET hi == IF x.e >= y.e THEN x ELSE y
             lo == IF x.e >= y.e THEN y ELSE x
             far == hi.e - lo.e > MaxAlign
             d == IF far THEN MaxAlign ELSE hi.e - lo.e
             mh == Shl(hi.m, d)
             ml == IF far THEN <<1>> ELSE lo.m
             c == Cmp(mh, ml)
         IN IF hi.s = lo.s THEN RoundF(hi.s, Add(mh, ml), hi.e - d, FALSE)
            ELSE IF c = 0 THEN Zero
            ELSE IF c > 0 THEN RoundF(hi.s, Sub(mh, ml), hi.e - d, FALSE)
            ELSE RoundF(lo.s, Sub(ml, mh), hi.e - d, FALSE)

FSub(x, y) == FAdd(x, FNeg(y))

\* the largest digit k <= est with k * d <= r
RECURSIVE FixDigit(_, _, _)
FixDigit(r, d, est) == IF Cmp(Mul(d, <<est>>), r) > 0 THEN FixDigit(r, d, est - 1) ELSE est

\* n more digits of the quotient r / d in base Base, for r < d and d of
\* DivLimbs limbs with its top bit set: <<digits, remainder>>, digits little-endian
RECURSIVE LongDiv(_, _, _, _)
LongDiv(r, d, q, n) ==
    IF n = 0 THEN <<q, r>>
    ELSE LET r1 == <<0>> \o r
             top == (Limb(r1, DivLimbs + 1) * Base + Limb(r1, DivLimbs)) \div d[DivLimbs]
             digit == FixDigit(r1, d, IF top > Base - 1 THEN Base - 1 ELSE top)
         IN LongDiv(Sub(r1, Mul(d, <<digit>>)), d, <<digit>> \o q, n - 1)

ZeroDivisionError == [k |-> "ZeroDivisionError", s |-> 1, m |-> <<>>, e |-> 0]

\* both significands are shifted to DivLimbs full limbs, so their quotient lies
\* between 1/2 and 2, and DivLimbs more digits give at least Precision + 2 bits
FDiv(x, y) ==
    IF x.k = "nan" \/ y.k = "nan" THEN NaN
    ELSE IF IsZero(y) THEN ZeroDivisionError
    ELSE IF x.k = "inf" THEN (IF y.k = "inf" THEN NaN ELSE Inf(x.s * y.s))
    ELSE IF y.k = "inf" \/ IsZero(x) THEN Zero
    ELSE LET sx == DivLimbs * LimbBits - BitLen(x.m)
             sy == DivLimbs * LimbBits - BitLen(y.m)
             n == Shl(x.m, sx)
             d == Shl(y.m, sy)
             ge == Cmp(n, d) >= 0
             qr == LongDiv(IF ge THEN Sub(n, d) ELSE n, d, <<>>, DivLimbs)
         IN RoundF(x.s * y.s, Trim(qr[1] \o <<IF ge THEN 1 ELSE 0>>),
                   (x.e - sx) - (y.e - sy) - DivLimbs * LimbBits, qr[2] # <<>>)

\* x < y, false when either is NaN
FLt(x, y) ==
    IF x.k = "nan" \/ y.k = "nan" THEN FALSE
    ELSE IF x = y THEN FALSE
    ELSE IF x.s # y.s THEN x.s < y.s
    ELSE LET below == IF x.k = "inf" THEN FALSE
                      ELSE IF y.k = "inf" THEN TRUE
                      ELSE IF x.e # y.e THEN x.e < y.e
                      ELSE Cmp(x.m, y.m) < 0
         IN IF x.s = 1 THEN below ELSE ~below

FGt(x, y) == FLt(y, x)

FEq(x, y) == x.k # "nan" /\ y.k # "nan" /\ x = y

FLe(x, y) == FLt(x, y) \/ FEq(x, y)

FGe(x, y) == FLe(y, x)

(***************************************************************************)
(* str: a sequence of characters.  str.lower() on the ASCII letters.       *)
(***************************************************************************)
UpperCase == <<"A", "B", "C", "D", "E", "F", "G", "H", "I", "J", "K", "L", "M",
               "N", "O", "P", "Q", "R", "S", "T", "U", "V", "W", "X", "Y", "Z">>

LowerCase == <<"a", "b", "c", "d", "e", "f", "g", "h", "i", "j", "k", "l", "m",
               "n", "o", "p", "q", "r", "s", "t", "u", "v", "w", "x", "y", "z">>

LowerChar(c) == IF \E i \in 1..Len(UpperCase) : UpperCase[i] = c
                THEN LowerCase[CHOOSE i \in 1..Len(UpperCase) : UpperCase[i] = c]
                ELSE c

lower(str) == [i \in 1..Len(str) |-> LowerChar(str[i])]

(***************************************************************************)
(* nutrition_planner.py                                                    *)
(***************************************************************************)
factors == (<<"l", "o", "w">> :> FromInt(12))
        @@ (<<"m", "e", "d", "i", "u", "m">> :> FromInt(14))
        @@ (<<"h", "i", "g", "h">> :> FromInt(16))

\* dict.get(key, default)
DictGet(dict, key, default) == IF key \in DOMAIN dict THEN dict[key] ELSE default

\* faulty variant: the lookup without .lower()
maintain_cals_CaseSensitive(weight_lb, activity_level) ==
    FMul(weight_lb, DictGet(factors, activity_level, FromInt(14)))

maintain_cals(weight_lb, activity_level) ==
    LET factor == DictGet(factors, lower(activity_level), FromInt(14))
    IN FMul(weight_lb, factor)

\* the literals 0.07, 0.8: the float nearest to the decimal
Float_0_07 == FDiv(FromInt(7), FromInt(100))

Float_0_8 == FDiv(FromInt(8), FromInt(10))

\* Person.__init__
PersonInit(current_w, goal_w, timeline, activity, health_concern, calorie_target) ==
    LET thousands == FDiv(calorie_target, FromInt(1000))
        sat_fat_cals == FMul(calorie_target, Float_0_07)
    IN [current_w |-> current_w, goal_w |-> goal_w, timeline |-> timeline,
        activity |-> activity, health_concern |-> health_concern,
        calorie_target |-> calorie_target,
        fiber_grams |-> FMul(thousands, FromInt(14)),
        sat_fat |-> FDiv(sat_fat_cals, FromInt(9))]

\* faulty variant: <= for <, equal weights count as "lose"
goal_type_LoseOnEqual(self) ==
    IF FLe(self.goal_w, self.current_w) THEN "lose"
    ELSE IF FGt(self.goal_w, self.current_w) THEN "gain"
    ELSE "maintain"

goal_type(self) ==
    IF FLt(self.goal_w, self.current_w) THEN "lose"
    ELSE IF FGt(self.goal_w, self.current_w) THEN "gain"
    ELSE "maintain"

\* max(a, b) of Python: the first argument unless the second is greater
PyMax(a, b) == IF FGt(b, a) THEN b ELSE a

Return(v) == [raised |-> "none", value |-> v]

Raise(e) == [raised |-> e, value |-> <<>>]

KcalPerPound == 3500

DaysPerWeek == 7

MinDays == 1

UnhealthyLimit == 1000

\* faulty variant: days = timeline * 7, without the floor of one day
daily_calorie_target_NoFloor(self) ==
    LET maintenance == maintain_cals(self.current_w, self.activity)
        total_calorie_shift == FMul(FSub(self.goal_w, self.current_w), FromInt(KcalPerPound))
        daily_adjustment == FDiv(total_calorie_shift, FMul(self.timeline, FromInt(DaysPerWeek)))
    IN IF daily_adjustment = ZeroDivisionError THEN Raise("ZeroDivisionError")
       ELSE Return([target |-> FAdd(maintenance, daily_adjustment),
                    unhealthy |-> FGt(FAbs(daily_adjustment), FromInt(UnhealthyLimit))])

\* faulty variant: unhealthy from 1000 kcal/day on, >= for >
daily_calorie_target_AtLeast(self) ==
    LET maintenance == maintain_cals(self.current_w, self.activity)
        total_calorie_shift == FMul(FSub(self.goal_w, self.current_w), FromInt(KcalPerPound))
        days == PyMax(FMul(self.timeline, FromInt(DaysPerWeek)), FromInt(MinDays))
        daily_adjustment == FDiv(total_calorie_shift, days)
    IN Return([target |-> FAdd(maintenance, daily_adjustment),
               unhealthy |-> FGe(FAbs(daily_adjustment), FromInt(UnhealthyLimit))])

\* faulty variant: pounds_change = current_w - goal_w, the operands swapped
daily_calorie_target_Swapped(self) ==
    LET maintenance == maintain_cals(self.current_w, self.activity)
        total_calorie_shift == FMul(FSub(self.current_w, self.goal_w), FromInt(KcalPerPound))
        days == PyMax(FMul(self.timeline, FromInt(DaysPerWeek)), FromInt(MinDays))
        daily_adjustment == FDiv(total_calorie_shift, days)
    IN Return([target |-> FAdd(maintenance, daily_adjustment),
               unhealthy |-> FGt(FAbs(daily_adjustment), FromInt(UnhealthyLimit))])

daily_calorie_target(self) ==
    LET maintenance == maintain_cals(self.current_w, self.activity)
        pounds_change == FSub(self.goal_w, self.current_w)
        total_calorie_shift == FMul(pounds_change, FromInt(KcalPerPound))
        days == PyMax(FMul(self.timeline, FromInt(DaysPerWeek)), FromInt(MinDays))
        daily_adjustment == FDiv(total_calorie_shift, days)
        unhealthy == FGt(FAbs(daily_adjustment), FromInt(UnhealthyLimit))
        calorie_target == FAdd(maintenance, daily_adjustment)
    IN IF daily_adjustment = ZeroDivisionError THEN Raise("ZeroDivisionError")
       ELSE Return([target |-> calorie_target, unhealthy |-> unhealthy])

\* faulty variant: the multipliers swapped, 0.8 for "lose"
protein_grams_Swapped(self) ==
    FMul(self.current_w, IF goal_type(self) = "lose" THEN Float_0_8 ELSE FromInt(1))

protein_grams(self) ==
    LET goal == goal_type(self)
        multiplier == IF goal = "lose" THEN FromInt(1) ELSE Float_0_8
    IN FMul(self.current_w, multiplier)

\* faulty variant: quinoa entered with 322 kcal, the largest low meal passes the smallest
\* high meal
low_cal_Quinoa322 == <<
    <<"protein", << <<"chicken breast, 100g", 165>>,
                    <<"tofu, 100g", 80>>,
                    <<"egg whites, 3 large", 50>> >> >>,
    <<"dairy",   << <<"nonfat Greek yogurt, 150g", 90>>,
                    <<"skim milk, 1 cup", 80>> >> >>,
    <<"veggies", << <<"spinach, 2 cups", 20>>,
                    <<"broccoli, 1 cup", 55>> >> >>,
    <<"grain",   << <<"brown rice, 1/2 cup cooked", 110>>,
                    <<"quinoa, 185g", 322>> >> >> >>

\* FoodDatabase.__init__: a dict keeps the order of insertion, so a table is the
\* sequence of its <<category, foods>> items
low_cal == <<
    <<"protein", << <<"chicken breast, 100g", 165>>,
                    <<"tofu, 100g", 80>>,
                    <<"egg whites, 3 large", 50>> >> >>,
    <<"dairy",   << <<"nonfat Greek yogurt, 150g", 90>>,
                    <<"skim milk, 1 cup", 80>> >> >>,
    <<"veggies", << <<"spinach, 2 cups", 20>>,
                    <<"broccoli, 1 cup", 55>> >> >>,
    <<"grain",   << <<"brown rice, 1/2 cup cooked", 110>>,
                    <<"quinoa, 185g", 222>> >> >> >>

high_cal == <<
    <<"protein", << <<"peanut butter, 32g", 188>>,
                    <<"ground beef, 100g", 250>> >> >>,
    <<"dairy",   << <<"cheddar cheese, 1 oz", 115>>,
                    <<"whole milk, 1 cup", 150>> >> >>,
    <<"veggies", << <<"sweet potato, 1 medium", 110>>,
                    <<"avocado, 1/2", 120>> >> >>,
    <<"grain",   << <<"white rice, 1 cup cooked", 200>>,
                    <<"pasta, 1 cup cooked", 220>> >> >> >>

\* the rows store_food_df appends, in order
RECURSIVE FoodRows(_, _, _, _)
FoodRows(source, label, c, f) ==
    IF c > Len(source) THEN <<>>
    ELSE IF f > Len(source[c][2]) THEN FoodRows(source, label, c + 1, 1)
    ELSE <<[group |-> label, category |-> source[c][1],
            food |-> source[c][2][f][1], calories |-> source[c][2][f][2]]>>
         \o FoodRows(source, label, c, f + 1)

\* DataFrame.sort_values("calories"): kind defaults to "quicksort", which pandas
\* documents as not stable, so rows of equal calories come out in any order
RECURSIVE SortValues(_)
SortValues(rows) ==
    IF rows = {} THEN {<<>>}
    ELSE LET least == {r \in rows : \A q \in rows : r.calories <= q.calories}
         IN UNION {{<<r>> \o rest : rest \in SortValues(rows \ {r})} : r \in least}

\* faulty variant: the DataFrame returned without sort_values
store_food_df_Unsorted(group) ==
    {FoodRows(IF group = "low" THEN low_cal ELSE high_cal,
              IF group = "low" THEN "low_cal" ELSE "high_cal", 1, 1)}

\* every DataFrame store_food_df can return
store_food_df(group) ==
    LET source == IF group = "low" THEN low_cal ELSE high_cal
        label == IF group = "low" THEN "low_cal" ELSE "high_cal"
        rows == FoodRows(source, label, 1, 1)
    IN SortValues({rows[i] : i \in 1..Len(rows)})

\* faulty variant: the calories of the last category are not added
RECURSIVE SumCals_SkipsLast(_, _, _)
SumCals_SkipsLast(source, pick, c) ==
    IF c >= Len(source) THEN 0
    ELSE source[c][2][pick[c]][2] + SumCals_SkipsLast(source, pick, c + 1)

RECURSIVE SumCals(_, _, _)
SumCals(source, pick, c) ==
    IF c > Len(source) THEN 0
    ELSE source[c][2][pick[c]][2] + SumCals(source, pick, c + 1)

\* faulty variant: for "maintain" the table is chosen again for the dairy
random_meal_Mixed(self, table, pick) ==
    LET other == IF table = low_cal THEN high_cal ELSE low_cal
        source == IF goal_type(self) = "lose" THEN low_cal
                  ELSE IF goal_type(self) = "gain" THEN high_cal
                  ELSE <<table[1], other[2], table[3], table[4]>>
        group == IF goal_type(self) = "lose" THEN "low"
                 ELSE IF goal_type(self) = "gain" THEN "high"
                 ELSE "balanced"
    IN [meal_items |-> [c \in 1..Len(source) |->
                           source[c][1] \o ": " \o source[c][2][pick[c]][1]],
        total_cals |-> SumCals(source, pick, 1),
        group |-> group]

\* random_meal with the outcomes of its random.choice calls given: table is the
\* choice between the two tables (used for "maintain" only), pick[c] the index
\* chosen in the c-th category's list
random_meal(self, table, pick) ==
    LET source == IF goal_type(self) = "lose" THEN low_cal
                  ELSE IF goal_type(self) = "gain" THEN high_cal
                  ELSE table
        group == IF goal_type(self) = "lose" THEN "low"
                 ELSE IF goal_type(self) = "gain" THEN "high"
                 ELSE "balanced"
    IN [meal_items |-> [c \in 1..Len(source) |->
                           source[c][1] \o ": " \o source[c][2][pick[c]][1]],
        total_cals |-> SumCals(source, pick, 1),
        group |-> group]

\* the outcomes random.choice(foods) can have in each category of a table
Picks(source) ==
    {p \in [1..Len(source) -> 1..3] : \A c \in 1..Len(source) : p[c] <= Len(source[c][2])}

(***************************************************************************)
(* Inputs                                                                  *)
(***************************************************************************)
MaxWeightSteps == 2

MaxWeeks == 2

\* 130, 150, 170, ...: the weights of the tests
TestWeights == {FromInt(130 + 20 * i) : i \in 0..MaxWeightSteps}

\* the smallest positive float, 5e-324
Tiny == Fin(1, <<1>>, EMin)

\* 2^1021, about 2.2e307
Huge == Scale(FromInt(1), 1021)

\* the weights of a Person
Weights == TestWeights \cup {FromInt(152), Zero, Tiny}

\* the weights maintain_cals is called with on its own
CallWeights == Weights \cup {Huge}

\* 1 - 2^-53 = 0.9999999999999999, the float just below one week
JustUnderOneWeek == FSub(FromInt(1), Scale(FromInt(1), -53))

\* 2^100 weeks, about 1.3e30
Aeons == Scale(FromInt(1), 100)

\* 0.125 week, less than a day
EighthOfWeek == Scale(FromInt(1), -3)

Timelines == {FromInt(i) : i \in -1..MaxWeeks}
             \cup {JustUnderOneWeek, Aeons, EighthOfWeek}

ProfileActivities == {<<"m", "e", "d", "i", "u", "m">>, <<"L", "O", "W">>}

Activities == ProfileActivities
              \cup {<<"l", "o", "w">>, <<"L", "o", "w">>,
                    <<"h", "i", "g", "h">>, <<"H", "I", "G", "H">>, <<"h", "i", "G", "h">>,
                    <<"M", "E", "D", "I", "U", "M">>, <<"M", "e", "D", "i", "U", "M">>,
                    <<>>, <<"l", "o", "w", " ">>, <<"n", "o", "n", "e">>,
                    <<"m", "e", "d">>, <<"H", "1", "G", "H">>}

CalorieTargets == {FromInt(2000)}

Persons == {PersonInit(c, g, t, a, h, ct) :
               c \in Weights, g \in Weights, t \in Timelines,
               a \in ProfileActivities, h \in BOOLEAN, ct \in CalorieTargets}

\* no Person constructed: the module function and the catalog listing need none
NoPerson == [none |-> TRUE]

Groups == {"low", "high"}

(***************************************************************************)
(* The calls                                                               *)
(***************************************************************************)
Init ==
    /\ person \in Persons \cup {NoPerson}
    /\ pc = "idle"
    /\ call = <<>>
    /\ result = <<>>

GoalType ==
    /\ pc = "idle" /\ person # NoPerson
    /\ call' = <<"goal_type">>
    /\ result' = Return(goal_type(person))
    /\ pc' = "returned"
    /\ UNCHANGED person

DailyCalorieTarget ==
    /\ pc = "idle" /\ person # NoPerson
    /\ call' = <<"daily_calorie_target">>
    /\ result' = daily_calorie_target(person)
    /\ pc' = "returned"
    /\ UNCHANGED person

ProteinGrams ==
    /\ pc = "idle" /\ person # NoPerson
    /\ call' = <<"protein_grams">>
    /\ result' = Return(protein_grams(person))
    /\ pc' = "returned"
    /\ UNCHANGED person

MaintainCals ==
    /\ pc = "idle" /\ person = NoPerson
    /\ \E w \in CallWeights, a \in Activities :
          /\ call' = <<"maintain_cals", w, a>>
          /\ result' = Return(maintain_cals(w, a))
    /\ pc' = "returned"
    /\ UNCHANGED person

\* group = "low" is the parameter's default: store_food_df() is store_food_df("low")
StoreFoodDf ==
    /\ pc = "idle" /\ person = NoPerson
    /\ \E group \in Groups :
          /\ call' = <<"store_food_df", group>>
          /\ \E df \in store_food_df(group) : result' = Return(df)
    /\ pc' = "returned"
    /\ UNCHANGED person

RandomMeal ==
    /\ pc = "idle" /\ person # NoPerson
    /\ call' = <<"random_meal">>
    /\ \E table \in {low_cal, high_cal} :
          \E pick \in Picks(IF goal_type(person) = "lose" THEN low_cal
                            ELSE IF goal_type(person) = "gain" THEN high_cal
                            ELSE table) :
             result' = Return(random_meal(person, table, pick))
    /\ pc' = "returned"
    /\ UNCHANGED person

\* the caller takes the result; the objects are unchanged and can be called again
Reset ==
    /\ pc = "returned"
    /\ pc' = "idle"
    /\ call' = <<>>
    /\ result' = <<>>
    /\ UNCHANGED person

Next ==
    \/ GoalType
    \/ DailyCalorieTarget
    \/ ProteinGrams
    \/ MaintainCals
    \/ StoreFoodDf
    \/ RandomMeal
    \/ Reset

Spec == Init /\ [][Next]_vars

(***************************************************************************)
(* Properties                                                              *)
(***************************************************************************)
Returned(op) == pc = "returned" /\ call[1] = op

\* what the claims call maintenance, days and the daily adjustment of a profile
Maintenance(p) == maintain_cals(p.current_w, p.activity)

CalorieShift(p) == FMul(FSub(p.goal_w, p.current_w), FromInt(3500))

DaysOf(p) ==
    LET d == FMul(p.timeline, FromInt(7))
    IN IF FGt(d, FromInt(1)) THEN d ELSE FromInt(1)

Adjustment(p) == FDiv(CalorieShift(p), DaysOf(p))

\* C1: daily_calorie_target returns maintenance + ((goal - current) * 3500) / days
\* with days = max(timeline * 7, 1), every operation a float operation; it never
\* divides by zero, and a timeline with timeline * 7 <= 1 (zero and negative ones
\* too) gives the target of one day, maintenance + (goal - current) * 3500
C1_TargetFormula ==
    Returned("daily_calorie_target") =>
        /\ result.raised = "none"
        /\ FGe(DaysOf(person), FromInt(1))
        /\ result.value.target = FAdd(Maintenance(person), Adjustment(person))
        /\ FLe(FMul(person.timeline, FromInt(7)), FromInt(1)) =>
              result.value.target = FAdd(Maintenance(person), CalorieShift(person))

\* a negative timeline with a real change of weight: the one-day target
C1_Witness ==
    /\ Returned("daily_calorie_target")
    /\ person.timeline = FromInt(-1)
    /\ person.current_w = FromInt(150) /\ person.goal_w = FromInt(170)
    /\ person.activity = <<"m", "e", "d", "i", "u", "m">>
    /\ result.raised = "none"
    /\ result.value.target = FromInt(2100 + 70000)

\* C2 as claimed: unhealthy iff |target - maintenance| > 1000, target being the
\* returned target
C2_Original ==
    Returned("daily_calorie_target") /\ result.raised = "none" =>
        (result.value.unhealthy
            <=> FGt(FAbs(FSub(result.value.target, Maintenance(person))), FromInt(1000)))

\* C2 amended: unhealthy iff |daily_adjustment| > 1000, daily_adjustment being the
\* quotient ((goal - current) * 3500) / days the code computes; strictly, so an
\* adjustment of exactly 1000 in either direction gives unhealthy = False
C2_UnhealthyIffAdjustmentOver1000 ==
    Returned("daily_calorie_target") /\ result.raised = "none" =>
        /\ result.value.unhealthy <=> FGt(FAbs(Adjustment(person)), FromInt(1000))
        /\ FAbs(Adjustment(person)) = FromInt(1000) => ~result.value.unhealthy

\* an adjustment of exactly -1000 kcal/day is reported as not unhealthy
C2_Witness ==
    /\ Returned("daily_calorie_target")
    /\ result.raised = "none"
    /\ Adjustment(person) = FromInt(-1000)
    /\ result.value.unhealthy = FALSE

\* C5: goal_type is "lose" iff goal < current, "gain" iff goal > current,
\* "maintain" iff goal = current, whatever the other fields of the profile
C5_GoalType ==
    Returned("goal_type") =>
        /\ result.raised = "none"
        /\ result.value \in {"lose", "gain", "maintain"}
        /\ result.value = "lose" <=> FLt(person.goal_w, person.current_w)
        /\ result.value = "gain" <=> FGt(person.goal_w, person.current_w)
        /\ result.value = "maintain" <=> FEq(person.goal_w, person.current_w)

\* equal weights, with a health concern and a negative timeline: still "maintain"
C5_Witness ==
    /\ Returned("goal_type")
    /\ result.value = "maintain"
    /\ person.health_concern
    /\ person.timeline = FromInt(-1)

\* C6 as claimed: target > maintenance iff goal > current, target < maintenance
\* iff goal < current, target = maintenance iff goal = current
C6_Original ==
    Returned("daily_calorie_target") /\ result.raised = "none" =>
        LET t == result.value.target
            m == Maintenance(person)
        IN /\ FGt(t, m) <=> FGt(person.goal_w, person.current_w)
           /\ FLt(t, m) <=> FLt(person.goal_w, person.current_w)
           /\ FEq(t, m) <=> FEq(person.goal_w, person.current_w)

\* C6 amended: the adjustment never goes against the goal, for every timeline:
\* target > maintenance only if goal > current, target < maintenance only if
\* goal < current, and goal = current gives target = maintenance
C6_DirectionNeverFlips ==
    Returned("daily_calorie_target") =>
        /\ result.raised = "none"
        /\ LET t == result.value.target
               m == Maintenance(person)
           IN /\ FGt(t, m) => FGt(person.goal_w, person.current_w)
              /\ FLt(t, m) => FLt(person.goal_w, person.current_w)
              /\ FEq(person.goal_w, person.current_w) => FEq(t, m)

\* a negative timeline with a goal above the current weight: the target is above
\* maintenance
C6_Witness ==
    /\ Returned("daily_calorie_target")
    /\ FLt(person.timeline, Zero)
    /\ FGt(person.goal_w, person.current_w)
    /\ result.raised = "none"
    /\ FGt(result.value.target, Maintenance(person))

\* the same string up to the case of its ASCII letters
SameLetter(c, d) ==
    \/ c = d
    \/ \E i \in 1..Len(UpperCase) : {c, d} = {UpperCase[i], LowerCase[i]}

SameIgnoringCase(a, b) ==
    Len(a) = Len(b) /\ \A i \in 1..Len(a) : SameLetter(a[i], b[i])

Low == <<"l", "o", "w">>

Medium == <<"m", "e", "d", "i", "u", "m">>

High == <<"h", "i", "g", "h">>

FactorOf(a) ==
    IF SameIgnoringCase(a, Low) THEN FromInt(12)
    ELSE IF SameIgnoringCase(a, High) THEN FromInt(16)
    ELSE FromInt(14)

\* maintain_cals(w, a) = w * f, f found without regard to case, 14 for an unknown
\* level, never an error; spellings that differ in case only give the same result
MaintainCalsIsWeightTimesFactor ==
    /\ result.raised = "none"
    /\ result.value = FMul(call[2], FactorOf(call[3]))
    /\ \A b \in Activities :
          SameIgnoringCase(call[3], b) => maintain_cals(call[2], b) = result.value

\* C7 as claimed: the above, and for every w > 0 the results are strictly ordered
\* low < medium < high
C7_Original ==
    Returned("maintain_cals") =>
        /\ MaintainCalsIsWeightTimesFactor
        /\ FGt(call[2], Zero) =>
              /\ FLt(maintain_cals(call[2], Low), maintain_cals(call[2], Medium))
              /\ FLt(maintain_cals(call[2], Medium), maintain_cals(call[2], High))

\* C7 amended: maintain_cals(w, a) = w * f as claimed, and for every w > 0 the
\* results are ordered low <= medium <= high, strictly so whenever the "high"
\* result is finite (w * 16 does not overflow the float range)
C7_MaintainCals ==
    Returned("maintain_cals") =>
        /\ MaintainCalsIsWeightTimesFactor
        /\ FGt(call[2], Zero) =>
              /\ FLe(maintain_cals(call[2], Low), maintain_cals(call[2], Medium))
              /\ FLe(maintain_cals(call[2], Medium), maintain_cals(call[2], High))
              /\ maintain_cals(call[2], High).k = "fin" =>
                    /\ FLt(maintain_cals(call[2], Low), maintain_cals(call[2], Medium))
                    /\ FLt(maintain_cals(call[2], Medium), maintain_cals(call[2], High))

\* maintain_cals(150, "MeDiUM") = 2100, as maintain_cals(150, "medium")
C7_Witness ==
    /\ Returned("maintain_cals")
    /\ call[2] = FromInt(150)
    /\ call[3] = <<"M", "e", "D", "i", "U", "M">>
    /\ result.value = FromInt(2100)
    /\ FLt(maintain_cals(call[2], Low), result.value)

\* the profile of the same person with another goal weight
WithGoal(p, g) ==
    PersonInit(p.current_w, g, p.timeline, p.activity, p.health_concern, p.calorie_target)

\* protein_grams is current_weight * 1.0 for "lose", current_weight * 0.8 otherwise
ProteinIsWeightTimesMultiplier ==
    /\ result.raised = "none"
    /\ result.value =
          FMul(person.current_w,
               IF FLt(person.goal_w, person.current_w) THEN FromInt(1)
               ELSE FDiv(FromInt(4), FromInt(5)))

\* C8 as claimed: the above, and at the same positive current weight a "lose"
\* profile gets strictly more protein than a "gain" profile
C8_Original ==
    Returned("protein_grams") =>
        /\ ProteinIsWeightTimesMultiplier
        /\ FLt(person.goal_w, person.current_w) /\ FGt(person.current_w, Zero) =>
              \A g \in Weights :
                  FGt(g, person.current_w) =>
                      FGt(result.value, protein_grams(WithGoal(person, g)))

IsNormal(x) == x.k = "fin" /\ BitLen(x.m) = Precision

\* C8 amended: protein_grams is current_weight * 1.0 for "lose" and * 0.8 otherwise;
\* at the same positive current weight the "lose" profile never gets less than the
\* "gain" profile, and strictly more when the weight is a normal float
\* (at least 2.2250738585072014e-308)
C8_ProteinGrams ==
    Returned("protein_grams") =>
        /\ ProteinIsWeightTimesMultiplier
        /\ FLt(person.goal_w, person.current_w) /\ FGt(person.current_w, Zero) =>
              \A g \in Weights :
                  FGt(g, person.current_w) =>
                      /\ FGe(result.value, protein_grams(WithGoal(person, g)))
                      /\ IsNormal(person.current_w) =>
                            FGt(result.value, protein_grams(WithGoal(person, g)))

\* 150 lb going down to 130: 150 g, against 120 g for the profile going up to 170
C8_Witness ==
    /\ Returned("protein_grams")
    /\ person.current_w = FromInt(150) /\ person.goal_w = FromInt(130)
    /\ result.value = FromInt(150)
    /\ protein_grams(WithGoal(person, FromInt(170))) = FromInt(120)

\* the entry random_meal makes for food f of the c-th category of a table
Entry(table, c, f) == table[c][1] \o ": " \o table[c][2][f][1]

\* every entry of a meal names an item of the table
AllFrom(meal, table) ==
    \A i \in 1..Len(meal) :
        \E c \in 1..Len(table) : \E f \in 1..Len(table[c][2]) : meal[i] = Entry(table, c, f)

CategoryOrder == <<"protein", "dairy", "veggies", "grain">>

\* the meal is one food of each category of the table, in the order of the
\* categories, and the total is the sum of the calories of those foods
MealOf(meal, total, table) ==
    /\ \A c \in 1..Len(CategoryOrder) :
          /\ table[c][1] = CategoryOrder[c]
          /\ \E f \in 1..Len(table[c][2]) : meal[c] = CategoryOrder[c] \o ": " \o table[c][2][f][1]
    /\ LET cals(c) == table[c][2][CHOOSE f \in 1..Len(table[c][2]) :
                                       meal[c] = CategoryOrder[c] \o ": " \o table[c][2][f][1]][2]
       IN total = cals(1) + cals(2) + cals(3) + cals(4)

\* C4: meal_items has exactly one entry per category, in the order protein, dairy,
\* veggies, grain, each "category: food_name" of a food of that category in the
\* table used; total_calories is the sum of the calories of those foods, and > 0
C4_OnePerCategory ==
    Returned("random_meal") =>
        /\ result.raised = "none"
        /\ Len(result.value.meal_items) = 4
        /\ \/ MealOf(result.value.meal_items, result.value.total_cals, low_cal)
           \/ MealOf(result.value.meal_items, result.value.total_cals, high_cal)
        /\ result.value.total_cals > 0

\* tofu, skim milk, broccoli and quinoa: 80 + 80 + 55 + 222
C4_Witness ==
    /\ Returned("random_meal")
    /\ result.value.meal_items = <<"protein: tofu, 100g", "dairy: skim milk, 1 cup",
                                   "veggies: broccoli, 1 cup", "grain: quinoa, 185g">>
    /\ result.value.total_cals = 437

\* rows in the order of the catalog: category by category, item by item
CatalogRows(group) ==
    FoodRows(IF group = "low" THEN low_cal ELSE high_cal,
             IF group = "low" THEN "low_cal" ELSE "high_cal", 1, 1)

\* a row put after the rows of a sorted sequence that have no more calories
InsertRow(sorted, r) ==
    LET n == Cardinality({i \in 1..Len(sorted) : sorted[i].calories <= r.calories})
    IN SubSeq(sorted, 1, n) \o <<r>> \o SubSeq(sorted, n + 1, Len(sorted))

\* the stable sort by calories
RECURSIVE StableSort(_)
StableSort(rows) ==
    IF rows = <<>> THEN <<>>
    ELSE InsertRow(StableSort(SubSeq(rows, 1, Len(rows) - 1)), rows[Len(rows)])

C10_TiersDoNotOverlap ==
    Returned("random_meal") =>
        LET total == result.value.total_cals
        IN /\ FLt(person.goal_w, person.current_w) =>
                 /\ 260 <= total /\ total <= 532
                 /\ \A pick \in Picks(high_cal) :
                       total < SumCals(high_cal, pick, 1)
           /\ FGt(person.goal_w, person.current_w) => 613 <= total /\ total <= 740
           /\ FEq(person.goal_w, person.current_w) =>
                 \/ 260 <= total /\ total <= 532
                 \/ 613 <= total /\ total <= 740

\* the largest "lose" meal: chicken, yogurt, broccoli, quinoa
C10_Witness ==
    /\ Returned("random_meal")
    /\ FLt(person.goal_w, person.current_w)
    /\ result.value.total_cals = 532
====
